---- MODULE Spec2Model ----
(***************************************************************************)
(* Model of main.py of 468Forecasts-bot: the Telegram command handlers     *)
(* over data.json, the Yr.no time-series aggregation (parse_yr), the       *)
(* compass mapping (deg_to_compass) and the table layout and cell texts    *)
(* of build_image.                                                         *)
(*                                                                         *)
(* Units.  Timestamps are whole hours UTC.  Precipitation amounts of the   *)
(* payload are hundredths of a millimetre, temperatures of the payload     *)
(* tenths of a degree, daily precip_mm and the snow estimate tenths,       *)
(* wind directions hundredths of a degree, canvas coordinates half pixels. *)
(***************************************************************************)
EXTENDS Integers, Sequences, FiniteSets, TLC

VARIABLES
    data,        \* contents of data.json
    conv,        \* ConversationHandler state per (chat, user)
    user_data,   \* context.user_data["coords"] per user
    ev,          \* the update handled last and what the bot answered
    payload,     \* properties.timeseries of the fetched Yr.no document
    now,         \* datetime.now(TIMEZONE), in hours UTC
    yr,          \* what parse_yr returned (or that it raised)
    image,       \* what build_image returned
    canvas,      \* fixed anchors of the drawing
    rows,        \* the table rows drawn, top to bottom
    deg,         \* argument of deg_to_compass
    compass      \* result of deg_to_compass

botVars == <<data, conv, user_data, ev>>
fcVars == <<payload, now, yr, image, canvas, rows>>
compassVars == <<deg, compass>>
vars == <<data, conv, user_data, ev, payload, now, yr, image, canvas, rows, deg, compass>>

-----------------------------------------------------------------------------
(* Optional values: Python None or a number. *)
Nil == [k |-> "none", v |-> 0]
Num(x) == [k |-> "num", v |-> x]

Abs(x) == IF x < 0 THEN -x ELSE x

(* Python round(): nearest multiple of d, ties to the even quotient. *)
RoundHalfEven(n, d) ==
    LET q == n \div d
        r == n % d
    IN  IF 2 * r < d THEN q
        ELSE IF 2 * r > d THEN q + 1
        ELSE IF q % 2 = 0 THEN q ELSE q + 1

(* Python int(): truncation toward zero of n/d, d > 0. *)
IntTrunc(n, d) == IF n >= 0 THEN n \div d ELSE -((-n) \div d)

SetMin(S) == CHOOSE x \in S : \A y \in S : x <= y
SetMax(S) == CHOOSE x \in S : \A y \in S : x >= y

-----------------------------------------------------------------------------
(* deg_to_compass *)

dirs == <<"N", "NNE", "NE", "ENE", "E", "ESE", "SE", "SSE",
          "S", "SSW", "SW", "WSW", "W", "WNW", "NW", "NNW">>

(* The spec's formula, round() in place of int(). *)
deg_to_compass_round(d) ==
    IF d.k = "none" THEN "?"
    ELSE dirs[(RoundHalfEven(d.v + 1125, 2250) % 16) + 1]

(* int((deg + 11.25) / 22.5) % 16, deg in hundredths of a degree. *)
deg_to_compass(d) ==
    IF d.k = "none" THEN "?"
    ELSE dirs[(IntTrunc(d.v + 1125, 2250) % 16) + 1]

-----------------------------------------------------------------------------
(* parse_yr *)

UtcOffsetHours == 3    \* Europe/Moscow
WindowDays == 5        \* range(5)

(* t.astimezone(tz).date(): the local calendar date, as a day number. *)
LocalDate(h) == (h + UtcOffsetHours) \div 24

(* A mutant: the date taken in UTC. *)
target_dates_utc(n) == {(n \div 24) + i : i \in 0..(WindowDays - 1)}

(* [(now + timedelta(days=i)).date() for i in range(5)] *)
target_dates(n) == {LocalDate(n) + i : i \in 0..(WindowDays - 1)}

(* One entry of the timeseries, as decoded JSON.
   shape   "dict", or "null" for an entry that is no object;
   time    [k |-> "missing" | "bad" | "iso", v |-> hour];
   data    "missing" | "null" | "dict";
   instant "missing" | "null" | "nulldetails" | "dict" (of data);
   temp, wind_dir   instant.details.air_temperature / wind_from_direction;
   n1, n6, n12      data.next_N_hours:
           [k |-> "missing" | "null" | "nodetails" | "noamount" | "nullamount"
                  | "amount", v |-> precipitation_amount]. *)
Time(h) == [k |-> "iso", v |-> h]
NoWin == [k |-> "missing", v |-> 0]
Win(a) == [k |-> "amount", v |-> a]
Entry(t, tmp, w1, w6, w12) ==
    [shape |-> "dict", time |-> t, data |-> "dict", instant |-> "dict",
     temp |-> tmp, wind_dir |-> Num(9000), n1 |-> w1, n6 |-> w6, n12 |-> w12]

InWindow(item, n) ==
    /\ item.shape = "dict"
    /\ item.time.k = "iso"
    /\ LocalDate(item.time.v) \in target_dates(n)

(* The loop body raises: item.get on a non-object, None.get on a null
   "data", "instant", "details" or "next_1_hours". *)
ItemRaises(item, n) ==
    \/ item.shape = "null"
    \/ /\ InWindow(item, n)
       /\ \/ item.data = "null"
          \/ /\ item.data = "dict"
             /\ \/ item.instant \in {"null", "nulldetails"}
                \/ item.n1.k = "null"

(* A mutant: fall back to the 6-hour, then the 12-hour window. *)
precip_shortest(item) ==
    IF item.data # "dict" THEN Num(0)
    ELSE IF item.n1.k = "amount" THEN Num(item.n1.v)
    ELSE IF item.n1.k = "nullamount" THEN Nil
    ELSE IF item.n6.k = "amount" THEN Num(item.n6.v)
    ELSE IF item.n12.k = "amount" THEN Num(item.n12.v)
    ELSE Num(0)

(* precip = 0.0; only next_1_hours with truthy details is read. *)
precip(item) ==
    IF item.data # "dict" THEN Num(0)
    ELSE IF item.n1.k = "amount" THEN Num(item.n1.v)
    ELSE IF item.n1.k = "nullamount" THEN Nil
    ELSE Num(0)

InstantField(item, f) ==
    IF item.data = "dict" /\ item.instant = "dict" THEN item[f] ELSE Nil

Sample(item) ==
    [time |-> item.time.v,
     temp |-> InstantField(item, "temp"),
     wind_dir |-> InstantField(item, "wind_dir"),
     precip_mm |-> precip(item)]

(* candidates[d]: the samples of local date d, in payload order. *)
RECURSIVE SamplesOn(_, _, _)
SamplesOn(ts, n, d) ==
    IF ts = <<>> THEN <<>>
    ELSE LET item == Head(ts)
             rest == SamplesOn(Tail(ts), n, d)
         IN  IF InWindow(item, n) /\ LocalDate(item.time.v) = d
             THEN <<Sample(item)>> \o rest
             ELSE rest

candidates(ts, n) == [d \in target_dates(n) |-> SamplesOn(ts, n, d)]

RECURSIVE SumPrecip(_)
SumPrecip(lst) ==
    IF lst = <<>> THEN 0 ELSE Head(lst).precip_mm.v + SumPrecip(Tail(lst))

NotNone(lst, f) == SelectSeq(lst, LAMBDA x : x[f].k = "num")

(* One day's record of results. *)
DayRecord(lst) ==
    LET temps == {NotNone(lst, "temp")[i].temp.v : i \in 1..Len(NotNone(lst, "temp"))}
        wind_dirs == NotNone(lst, "wind_dir")
    IN  [temp_min |-> IF temps # {} THEN Num(RoundHalfEven(SetMin(temps), 10)) ELSE Nil,
         temp_max |-> IF temps # {} THEN Num(RoundHalfEven(SetMax(temps), 10)) ELSE Nil,
         wind_dir_deg |-> IF Len(wind_dirs) > 0
                          THEN wind_dirs[(Len(wind_dirs) \div 2) + 1].wind_dir
                          ELSE Nil,
         precip_mm |-> RoundHalfEven(SumPrecip(lst), 10)]

Raised == [k |-> "raised", days |-> <<>>]

parse_yr(ts, n) ==
    LET c == candidates(ts, n)
        filled == {d \in target_dates(n) : c[d] # <<>>}
    IN  IF \E i \in 1..Len(ts) : ItemRaises(ts[i], n)
        THEN Raised
        ELSE IF \E d \in filled : \E i \in 1..Len(c[d]) : c[d][i].precip_mm.k = "none"
        THEN Raised    \* sum(): int + None
        ELSE [k |-> "ok", days |-> [d \in filled |-> DayRecord(c[d])]]

-----------------------------------------------------------------------------
(* build_image: layout and cell texts *)

ScaleNum == 3          \* scale = 1.5
ScaleDen == 2
base_w == 700
base_h == 300
Margin == 12           \* 12 * scale: left edge of the table
DateCentre == 75       \* offset of the Date column centre
TempOffset == 160      \* offsets of the other four centres from it
WindOffset == 320
RainOffset == 480
SnowOffset == 620
HeaderTop == 44        \* y_start = 44 * scale
RowUnits == 36         \* row_h = int(36 * scale)

(* x * scale, in half pixels. *)
Scaled(x) == (2 * x * ScaleNum) \div ScaleDen
(* int(x * scale), in pixels. *)
IntScaled(x) == IntTrunc(x * ScaleNum, ScaleDen)

width == IntScaled(base_w)
height == IntScaled(base_h)
row_h == IntScaled(RowUnits)
y_start == Scaled(HeaderTop)

col_centers ==
    <<Scaled(Margin) + Scaled(DateCentre),
      Scaled(Margin) + Scaled(DateCentre) + Scaled(TempOffset),
      Scaled(Margin) + Scaled(DateCentre) + Scaled(WindOffset),
      Scaled(Margin) + Scaled(DateCentre) + Scaled(RainOffset),
      Scaled(Margin) + Scaled(DateCentre) + Scaled(SnowOffset)>>

(* y = y_start + int(1.2 * row_h), in half pixels. *)
first_row_y == y_start + 2 * IntTrunc(12 * row_h, 10)

(* y += int(row_h * 1.1), in half pixels. *)
row_step == 2 * IntTrunc(row_h * 11, 10)

(* f"{x:.1f}" of a value given in tenths. *)
Fmt1(n) ==
    (IF n < 0 THEN "-" ELSE "") \o ToString(Abs(n) \div 10) \o "." \o ToString(Abs(n) % 10)

(* snow = round(rain * 1.5, 1) if tmax is not None and tmax <= 0 else 0.0 *)
snow_estimate(rain, tmax) ==
    IF tmax.k = "num" /\ tmax.v <= 0 THEN RoundHalfEven(rain * 15, 10) ELSE 0

(* sorted(yr.keys()): ISO dates sort as the days do. *)
RECURSIVE SortedDays(_)
SortedDays(S) ==
    IF S = {} THEN <<>> ELSE <<SetMin(S)>> \o SortedDays(S \ {SetMin(S)})

(* One pass of the loop over the days: the row drawn for day number
   SortedDays[i], with its anchors and its cells. *)
DrawnRow(days, order, i, n) ==
    LET info == days[order[i]]
        y == first_row_y + (i - 1) * row_step
        rain == info.precip_mm
        snow == snow_estimate(rain, info.temp_max)
    IN  [day |-> order[i],
         label |-> IF order[i] = LocalDate(n) THEN "Today" ELSE "date",
         t_text |-> IF info.temp_max.k = "num" /\ info.temp_min.k = "num"
                    THEN ToString(info.temp_max.v) \o "/" \o ToString(info.temp_min.v)
                    ELSE "?",
         wind_dir |-> deg_to_compass(info.wind_dir_deg),
         rain |-> rain,
         snow |-> snow,
         rain_txt |-> Fmt1(rain),
         snow_txt |-> Fmt1(snow),
         line_y |-> y - row_h,        \* y - row_h / 2
         y |-> y]

NoCanvas == [width |-> 0, height |-> 0, header_y |-> 0, col_centers |-> <<>>]

(* build_image with coords stored: the fetch (payload is what it returned),
   parse_yr inside try/except, then the drawing.  The header row is drawn
   at the column centres whether or not there are rows. *)
build_image ==
    /\ image = "unset"
    /\ yr' = parse_yr(payload, now)
    /\ IF yr'.k = "raised"
       THEN /\ image' = "None"
            /\ canvas' = NoCanvas
            /\ rows' = <<>>
       ELSE LET order == SortedDays(DOMAIN yr'.days)
            IN  /\ image' = "png"
                /\ canvas' = [width |-> 2 * width, height |-> 2 * height,
                              header_y |-> y_start, col_centers |-> col_centers]
                /\ rows' = [i \in 1..Len(order) |-> DrawnRow(yr'.days, order, i, now)]
    /\ UNCHANGED <<payload, now>>
    /\ UNCHANGED botVars
    /\ UNCHANGED compassVars

-----------------------------------------------------------------------------
(* The inputs of a forecast: the clock and the fetched timeseries. *)

MaxLen == 2            \* entries of a payload in arbitrary order
MaxDay == 6            \* last day of an hourly-ordered payload

(* 23:00 of day 0 and 00:00 of day 1, Moscow time, and 03:00 of day 0. *)
NowHours == {0, 20, 21}
EntryHours == {20, 21}

WellFormed ==
    {Entry(Time(h), t, w1, w6, NoWin) :
        h \in EntryHours, t \in {Num(-4), Num(50)},
        w1 \in {NoWin, Win(4), Win(120)}, w6 \in {NoWin, Win(200)}}
    \cup {Entry(Time(21), Num(-4), NoWin, w6, Win(300)) : w6 \in {NoWin, Win(200)}}
    \cup {Entry(Time(21), Nil, Win(120), NoWin, NoWin)}

Base == Entry(Time(21), Num(-4), Win(120), NoWin, NoWin)

Malformed ==
    {[Base EXCEPT !.shape = "null"],
     [Base EXCEPT !.time = [k |-> "missing", v |-> 0]],
     [Base EXCEPT !.time = [k |-> "bad", v |-> 0]],
     [Base EXCEPT !.data = "null"],
     [Base EXCEPT !.data = "missing"],
     [Base EXCEPT !.data = "null", !.time = Time(240)],
     [Base EXCEPT !.instant = "null"],
     [Base EXCEPT !.instant = "nulldetails"],
     [Base EXCEPT !.instant = "missing"],
     [Base EXCEPT !.n1 = [k |-> "null", v |-> 0]],
     [Base EXCEPT !.n1 = [k |-> "nodetails", v |-> 0]],
     [Base EXCEPT !.n1 = [k |-> "noamount", v |-> 0]],
     [Base EXCEPT !.n1 = [k |-> "nullamount", v |-> 0]]}

Negative == {Entry(Time(21), Num(-4), Win(-100), NoWin, NoWin)}

Entries == WellFormed \cup Malformed \cup Negative

AnyOrder == UNION {[1..k -> Entries] : k \in 0..MaxLen}

(* One dry sample at local noon of each chosen day, in time order. *)
Hourly(S) ==
    LET order == SortedDays(S)
    IN  [i \in 1..Len(order) |->
            Entry(Time(24 * order[i] + 9), Num(50), Win(0), NoWin, NoWin)]

Chronological == {Hourly(S) : S \in SUBSET ((-1)..MaxDay)}

Payloads == AnyOrder \cup Chronological

BotIdle ==
    /\ data = [admin_id |-> Nil, chat_id |-> Nil, coords |-> Nil,
               location_name |-> "", enabled |-> TRUE]
    /\ conv = <<>>
    /\ user_data = <<>>
    /\ ev = [op |-> "none", user |-> 0, chat |-> 0, sent |-> FALSE]

ForecastIdle ==
    /\ payload = <<>>
    /\ now = 0
    /\ yr = [k |-> "unset", days |-> <<>>]
    /\ image = "idle"
    /\ canvas = NoCanvas
    /\ rows = <<>>

CompassIdle ==
    /\ deg = Nil
    /\ compass = "idle"

InitForecast ==
    /\ payload \in Payloads
    /\ now \in NowHours
    /\ yr = [k |-> "unset", days |-> <<>>]
    /\ image = "unset"
    /\ canvas = NoCanvas
    /\ rows = <<>>
    /\ BotIdle
    /\ CompassIdle

NextForecast == build_image

SpecForecast == InitForecast /\ [][NextForecast]_vars

-----------------------------------------------------------------------------
(* The inputs of deg_to_compass: None, or 0.00 .. 360.00 degrees. *)

Degrees == {Nil} \cup {Num(x) : x \in 0..36000}

InitCompass ==
    /\ deg \in Degrees
    /\ compass = "unset"
    /\ BotIdle
    /\ ForecastIdle

ApplyCompass ==
    /\ compass = "unset"
    /\ compass' = deg_to_compass(deg)
    /\ UNCHANGED deg
    /\ UNCHANGED botVars
    /\ UNCHANGED fcVars

NextCompass == ApplyCompass

SpecCompass == InitCompass /\ [][NextCompass]_vars

-----------------------------------------------------------------------------
(* Claims about parse_yr and build_image, under SpecForecast. *)

Today == (now + 3) \div 24

(* The entries of the payload that carry a parsable timestamp of local
   date d. *)
StampedOn(d) ==
    {i \in 1..Len(payload) :
        /\ payload[i].shape = "dict"
        /\ payload[i].time.k = "iso"
        /\ (payload[i].time.v + 3) \div 24 = d}

(* C1: whenever parse_yr returns, it returns at most 5 daily records, each
   for one of the local dates today .. today+4, and none for a date that
   received no sample. *)
C1_AtMostFiveDaysInWindow ==
    yr.k = "ok" =>
        /\ Cardinality(DOMAIN yr.days) <= 5
        /\ \A d \in DOMAIN yr.days : Today <= d /\ d <= Today + 4
        /\ \A d \in DOMAIN yr.days : StampedOn(d) # {}

(* C1 witness: seven days of samples reduced to a full window of five
   records, the first of them today's. *)
C1_Witness ==
    /\ yr.k = "ok"
    /\ Len(payload) >= 7
    /\ DOMAIN yr.days = Today..(Today + 4)

(* The amount the claim of C2 counts for an entry: that of the shortest
   window present. *)
ShortestWindowAmount(item) ==
    IF item.data # "dict" THEN 0
    ELSE IF item.n1.k = "amount" THEN item.n1.v
    ELSE IF item.n6.k = "amount" THEN item.n6.v
    ELSE IF item.n12.k = "amount" THEN item.n12.v
    ELSE 0

(* The amount of the 1-hour window alone. *)
OneHourAmount(item) ==
    IF item.data = "dict" /\ item.n1.k = "amount" THEN item.n1.v ELSE 0

RECURSIVE SumOver(_, _)
SumOver(f, S) ==
    IF S = {} THEN 0
    ELSE LET i == CHOOSE x \in S : TRUE IN f[i] + SumOver(f, S \ {i})

(* C2, as claimed: each day's precip_mm is the rounded sum, over the day's
   samples, of the amount of the shortest window present on the sample, so
   that a sample with only a 6-hour window contributes that amount. *)
C2_ShortestWindowCounted ==
    yr.k = "ok" =>
        \A d \in DOMAIN yr.days :
            yr.days[d].precip_mm =
                RoundHalfEven(SumOver([i \in 1..Len(payload) |->
                                          ShortestWindowAmount(payload[i])],
                                      StampedOn(d)), 10)

(* C2, amended: each day's precip_mm is the rounded sum, over the day's
   samples, of the 1-hour amount where the sample has one and of 0 where it
   has not; the 6-hour and 12-hour windows are never counted, and no sample
   contributes more than one window's amount. *)
C2_OneHourWindowCounted ==
    yr.k = "ok" =>
        \A d \in DOMAIN yr.days :
            yr.days[d].precip_mm =
                RoundHalfEven(SumOver([i \in 1..Len(payload) |->
                                          OneHourAmount(payload[i])],
                                      StampedOn(d)), 10)

(* C2 witness: a day with one sample of 1.2 mm in its 1-hour window and one
   sample that has only a 6-hour window of 2.0 mm; the day's total is 1.2. *)
C2_Witness ==
    /\ yr.k = "ok"
    /\ \E d \in DOMAIN yr.days : \E i, j \in StampedOn(d) :
        /\ payload[i].n1 = Win(120)
        /\ payload[j].n1 = NoWin
        /\ payload[j].n6 = Win(200)
        /\ yr.days[d].precip_mm = 12

(* C4: in every drawn row the rain cell is a placeholder dash when
   precip_mm is 0 and the 1-decimal value otherwise, likewise the snow
   cell, and "0.0" is drawn in neither. *)
C4_ZeroDrawnAsDash ==
    image = "png" =>
        \A i \in 1..Len(rows) :
            /\ rows[i].rain_txt = (IF rows[i].rain = 0 THEN "-" ELSE Fmt1(rows[i].rain))
            /\ rows[i].snow_txt = (IF rows[i].snow = 0 THEN "-" ELSE Fmt1(rows[i].snow))
            /\ rows[i].rain_txt # "0.0"
            /\ rows[i].snow_txt # "0.0"

(* C5: every daily record has precip_mm >= 0, and the snow estimate drawn
   from it is >= 0. *)
C5_PrecipAndSnowNonNegative ==
    /\ yr.k = "ok" => \A d \in DOMAIN yr.days : yr.days[d].precip_mm >= 0
    /\ image = "png" => \A i \in 1..Len(rows) : rows[i].rain >= 0 /\ rows[i].snow >= 0

(* An entry the claim of C6 calls malformed. *)
IsMalformed(item) ==
    \/ item.shape # "dict"
    \/ item.time.k \in {"missing", "bad"}
    \/ item.data \in {"missing", "null"}
    \/ item.instant \in {"missing", "null", "nulldetails"}
    \/ item.n1.k \in {"null", "nodetails", "nullamount"}

RemoveAt(ts, i) == [j \in 1..(Len(ts) - 1) |-> IF j < i THEN ts[j] ELSE ts[j + 1]]

(* C6: a malformed entry is skipped without raising: parse_yr returns, and
   returns what it returns for the payload without that entry. *)
C6_MalformedEntrySkipped ==
    image # "unset" =>
        \A i \in 1..Len(payload) :
            IsMalformed(payload[i]) =>
                /\ yr.k = "ok"
                /\ yr = parse_yr(RemoveAt(payload, i), now)

(* C10: every anchor lies inside the 1050 x 450 canvas: the five column
   centres within 0 .. width, and for the rows header y < rule y < row y <
   height, the row y increasing by one same step. *)
C10_AnchorsInsideCanvas ==
    image = "png" =>
        /\ canvas.width = 2 * 1050
        /\ canvas.height = 2 * 450
        /\ \A k \in 1..5 :
            0 <= canvas.col_centers[k] /\ canvas.col_centers[k] <= canvas.width
        /\ \A i \in 1..Len(rows) :
            /\ canvas.header_y < rows[i].line_y
            /\ rows[i].line_y < rows[i].y
            /\ rows[i].y < canvas.height
        /\ \A i \in 2..Len(rows) :
            /\ rows[i].y > rows[i - 1].y
            /\ rows[i].y - rows[i - 1].y = rows[2].y - rows[1].y

-----------------------------------------------------------------------------
(* Claims about deg_to_compass, under SpecCompass. *)

CompassPoints == {dirs[k] : k \in 1..16}

(* C3, as claimed: 0 -> N, 90 -> E, 202.5 -> SSW, all of 348 .. 360 and
   0 .. 11.24 -> N, None -> "?", and every degree of 0 .. 360 maps to one
   of the 16 points. *)
C3_CompassWrapFrom348 ==
    compass # "unset" =>
        /\ deg = Num(0) => compass = "N"
        /\ deg = Num(9000) => compass = "E"
        /\ deg = Num(20250) => compass = "SSW"
        /\ (deg.k = "num" /\ (deg.v >= 34800 \/ deg.v <= 1124)) => compass = "N"
        /\ deg.k = "none" => compass = "?"
        /\ deg.k = "num" => compass \in CompassPoints

(* C3, amended: the same, with the wraparound range starting at 348.75:
   all of 348.75 .. 360 and 0 .. 11.24 map to N (348 .. 348.74 map to
   NNW). *)
C3_CompassWrapFrom34875 ==
    compass # "unset" =>
        /\ deg = Num(0) => compass = "N"
        /\ deg = Num(9000) => compass = "E"
        /\ deg = Num(20250) => compass = "SSW"
        /\ (deg.k = "num" /\ (deg.v >= 34875 \/ deg.v <= 1124)) => compass = "N"
        /\ (deg.k = "num" /\ deg.v >= 34800 /\ deg.v < 34875) => compass = "NNW"
        /\ deg.k = "none" => compass = "?"
        /\ deg.k = "num" => compass \in CompassPoints

(* C3 witness: 348.75 degrees has been mapped, to N. *)
C3_Witness == deg = Num(34875) /\ compass = "N"

-----------------------------------------------------------------------------
(* The bot: command handlers over data.json.                                *)
(* data.coords is <<>> for None, else <<lat, lon>>; data.location_name is  *)
(* NoName for None.  The Application handles one update at a time, so each *)
(* handler is one step; send_forecast runs on the scheduler's thread and   *)
(* only reads.                                                             *)

NumUsers == 2
Users == 1..NumUsers
Chats == {10, 20}
CoordArgs == {<<55, 37>>}
(* What /setcoords is given: two numbers, or anything else. *)
CoordInputs == {[k |-> "bad", v |-> <<>>]} \cup {[k |-> "ok", v |-> x] : x \in CoordArgs}
Names == {"Home"}
NoName == [k |-> "none", v |-> ""]
Name(x) == [k |-> "str", v |-> x]
END == "END"
NAME == "NAME"

(* What /setadmin is given: no argument, an argument that neither parses as
   an integer nor resolves through get_chat, or an id.  int("0") is 0. *)
Targets == {[k |-> "noargs", v |-> 0], [k |-> "bad", v |-> 0]}
           \cup {[k |-> "id", v |-> x] : x \in 0..NumUsers}

(* Python truthiness of an optional integer: None and 0 are falsy. *)
Truthy(x) == x.k = "num" /\ x.v # 0

(* "if current_admin and ..." *)
admin_is_set(d) == Truthy(d.admin_id)

is_admin(user_id) == data.admin_id = Num(user_id)

Event(op, u, arg, sent) == [op |-> op, user |-> u, arg |-> arg, sent |-> sent]

(* The bot's handlers touch neither a forecast in progress nor the compass. *)
RestUnchanged == UNCHANGED <<payload, now, yr, image, canvas, rows, deg, compass>>

InitBot ==
    /\ data = [admin_id |-> Nil, chat_id |-> Nil, coords |-> <<>>,
               location_name |-> NoName, enabled |-> TRUE]
    /\ conv = [key \in Chats \X Users |-> END]
    /\ user_data = [u \in Users |-> <<>>]
    /\ ev = Event("none", 0, "-", FALSE)
    /\ ForecastIdle
    /\ CompassIdle

set_admin_cmd(u, c, target) ==
    /\ ev' = Event("setadmin", u, target.k, FALSE)
    /\ IF admin_is_set(data) /\ u # data.admin_id.v
       THEN UNCHANGED data
       ELSE IF target.k = "noargs"
       THEN data' = [data EXCEPT !.admin_id = Num(u), !.chat_id = Num(c)]
       ELSE IF target.k = "bad"
       THEN UNCHANGED data
       ELSE data' = [data EXCEPT !.admin_id = Num(target.v), !.chat_id = Num(c)]
    /\ UNCHANGED <<conv, user_data>>
    /\ RestUnchanged

(* /setcoords is the conversation's entry point: it is handled only while
   the (chat, user) conversation is not waiting for the name. *)
set_coords(u, c, args) ==
    /\ conv[<<c, u>>] = END
    /\ ev' = Event("setcoords", u, "-", FALSE)
    /\ IF is_admin(u) /\ args.k = "ok"
       THEN /\ user_data' = [user_data EXCEPT ![u] = args.v]
            /\ conv' = [conv EXCEPT ![<<c, u>>] = NAME]
       ELSE UNCHANGED <<conv, user_data>>
    /\ UNCHANGED data
    /\ RestUnchanged

(* The text message that follows /setcoords. *)
save_location_name(u, c, name) ==
    /\ conv[<<c, u>>] = NAME
    /\ ev' = Event("location_name", u, "-", FALSE)
    /\ data' = [data EXCEPT !.coords = user_data[u],
                            !.location_name = Name(name),
                            !.enabled = TRUE]
    /\ conv' = [conv EXCEPT ![<<c, u>>] = END]
    /\ UNCHANGED user_data
    /\ RestUnchanged

stop_forecast(u) ==
    /\ ev' = Event("stopforecast", u, "-", FALSE)
    /\ IF is_admin(u)
       THEN data' = [data EXCEPT !.enabled = FALSE]
       ELSE UNCHANGED data
    /\ UNCHANGED <<conv, user_data>>
    /\ RestUnchanged

start_forecast(u) ==
    /\ ev' = Event("startforecast", u, "-", FALSE)
    /\ IF is_admin(u)
       THEN data' = [data EXCEPT !.enabled = TRUE]
       ELSE UNCHANGED data
    /\ UNCHANGED <<conv, user_data>>
    /\ RestUnchanged

(* A mutant: the enabled flag is not consulted. *)
should_send_ignoring_enabled(d) == d.coords # <<>> /\ Truthy(d.chat_id)

(* not (not coords or not chat_id or not enabled) *)
should_send(d) == d.coords # <<>> /\ Truthy(d.chat_id) /\ d.enabled

(* The scheduled job; fetched tells whether build_image returned an image. *)
send_forecast(fetched) ==
    /\ ev' = Event("send_forecast", 0, "-", should_send(data) /\ fetched)
    /\ UNCHANGED <<data, conv, user_data>>
    /\ RestUnchanged

(* /forecast, open to everyone. *)
forecast_command(u, fetched) ==
    /\ ev' = Event("forecast", u, "-", data.coords # <<>> /\ fetched)
    /\ UNCHANGED <<data, conv, user_data>>
    /\ RestUnchanged

NextBot ==
    \/ \E u \in Users, c \in Chats, target \in Targets : set_admin_cmd(u, c, target)
    \/ \E u \in Users, c \in Chats, args \in CoordInputs : set_coords(u, c, args)
    \/ \E u \in Users, c \in Chats, name \in Names : save_location_name(u, c, name)
    \/ \E u \in Users : stop_forecast(u)
    \/ \E u \in Users : start_forecast(u)
    \/ \E fetched \in BOOLEAN : send_forecast(fetched)
    \/ \E u \in Users, fetched \in BOOLEAN : forecast_command(u, fetched)

Spec == InitBot /\ [][NextBot]_vars

-----------------------------------------------------------------------------
(* Claims about the bot, under Spec.  ev' is the update a step handles,    *)
(* data the file before it and data' the file after it.                    *)

(* C7: while no admin is stored, a /setadmin that names an admin (no
   argument, or an id) sets admin_id; once an admin is stored, admin_id and
   chat_id change only through a /setadmin issued by the stored admin. *)
C7_AdminChangedOnlyByAdmin ==
    [][/\ (data.admin_id.k = "none" /\ ev'.op = "setadmin" /\ ev'.arg # "bad")
            => data'.admin_id.k = "num"
       /\ (data.admin_id.k = "num"
             /\ (data'.admin_id # data.admin_id \/ data'.chat_id # data.chat_id))
            => (ev'.op = "setadmin" /\ data.admin_id = Num(ev'.user))]_vars

(* C8: the stored coords and location_name are written only by an action
   of the user who is the stored admin when the write happens. *)
C8_LocationWrittenOnlyByAdmin ==
    [][(\/ ev'.op = "location_name"
        \/ data'.coords # data.coords
        \/ data'.location_name # data.location_name)
            => data.admin_id = Num(ev'.user)]_vars

(* C9, as claimed: an admin's /stopforecast clears enabled, enabled then
   stays false until an admin's /startforecast, and send_forecast sends
   only with coords and chat_id set and enabled true. *)
C9_DisabledUntilStartForecast ==
    [][/\ (ev'.op = "stopforecast" /\ data.admin_id = Num(ev'.user)) => ~data'.enabled
       /\ (~data.enabled /\ data'.enabled)
            => (ev'.op = "startforecast" /\ data.admin_id = Num(ev'.user))
       /\ (ev'.op = "send_forecast" /\ ev'.sent)
            => (data.coords # <<>> /\ data.chat_id.k = "num" /\ data.enabled)]_vars

(* C9, amended: an admin's /stopforecast clears enabled, enabled then stays
   false until an admin's /startforecast or a location-name message that
   completes a /setcoords conversation, and send_forecast sends only with
   coords and chat_id set and enabled true. *)
C9_DisabledUntilStartOrNewLocation ==
    [][/\ (ev'.op = "stopforecast" /\ data.admin_id = Num(ev'.user)) => ~data'.enabled
       /\ (~data.enabled /\ data'.enabled)
            => \/ ev'.op = "startforecast" /\ data.admin_id = Num(ev'.user)
               \/ ev'.op = "location_name"
       /\ (ev'.op = "send_forecast" /\ ev'.sent)
            => (data.coords # <<>> /\ data.chat_id.k = "num" /\ data.enabled)]_vars

(* C9 witness: with coords and chat_id stored and the forecast stopped, a
   scheduled run has fetched nothing to send. *)
C9_Witness ==
    /\ ev.op = "send_forecast"
    /\ ~ev.sent
    /\ ~data.enabled
    /\ data.coords # <<>>
    /\ data.chat_id.k = "num"

====
